---- MODULE Spec2Model ----
(***************************************************************************)
(* Model of weather.py: a command-line weather lookup.  main() geocodes a  *)
(* city, fetches a daily forecast, builds one table row per day and prints *)
(* a location line and the table; any exception is reported on standard    *)
(* error with exit status 1.                                               *)
(*                                                                         *)
(* Text is modelled as a sequence of characters, each character a string.  *)
(* A non-ASCII character is written as its code point, "u5FEB".  JSON      *)
(* values are tagged records [t, v]; a JSON float carries its value in     *)
(* units of 10^-6.                                                         *)
(***************************************************************************)
EXTENDS Integers, Sequences, FiniteSets, TLC

VARIABLES pc, args, http_log, g, loc, data, i, rows, headers, table,
          exc, stdout, stderr, exit_status, codeMap

vars == <<pc, args, http_log, g, loc, data, i, rows, headers, table,
          exc, stdout, stderr, exit_status, codeMap>>

(***************************************************************************)
(* Bounds of the model.                                                    *)
(***************************************************************************)
MaxDays == 2
MaxRows == 2
MaxCols == 2

(***************************************************************************)
(* Characters and text.                                                    *)
(***************************************************************************)
LF == "\n"

DigitChars == <<"0", "1", "2", "3", "4", "5", "6", "7", "8", "9">>

Abs(n) == IF n < 0 THEN 0 - n ELSE n

Max2(a, b) == IF a >= b THEN a ELSE b

Min2(a, b) == IF a <= b THEN a ELSE b

Repeat(c, n) == [k \in 1..n |-> c]

RECURSIVE NatStr(_)
NatStr(n) ==
    IF n < 10 THEN <<DigitChars[n + 1]>>
    ELSE NatStr(n \div 10) \o <<DigitChars[(n % 10) + 1]>>

\* str(n) of a Python int
IntStr(n) == IF n < 0 THEN <<"-">> \o NatStr(0 - n) ELSE NatStr(n)

\* a natural number in at least w digits, zero padded on the left
ZeroPad(n, w) ==
    LET s == NatStr(n)
    IN  IF Len(s) >= w THEN s ELSE Repeat("0", w - Len(s)) \o s

RECURSIVE Pow10(_)
Pow10(k) == IF k = 0 THEN 1 ELSE 10 * Pow10(k - 1)

\* The quotients q such that q * unit is a nearest multiple of unit to m.
\* Exactly one, except on a decimal tie, where the binary value of the
\* float decides and both neighbours are possible.
RoundDiv(m, unit) ==
    LET lo == IF m >= 0 THEN m \div unit ELSE 0 - ((0 - m) \div unit) - 1
    IN  {q \in (lo - 1)..(lo + 1) : 2 * Abs(m - q * unit) <= unit}

\* The text of q / 10^digits printed with exactly `digits` decimals; neg is
\* the sign of the number before rounding, which the text keeps (-0.0).
FmtFixed(neg, q, digits) ==
    LET p == Pow10(digits)
        a == Abs(q)
    IN  (IF neg THEN <<"-">> ELSE <<>>)
        \o NatStr(a \div p) \o <<".">> \o ZeroPad(a % p, digits)

\* format(x, ".<digits>f") for x = m * 10^-6: the possible texts
FixedTexts(m, digits) ==
    {FmtFixed(m < 0, q, digits) : q \in RoundDiv(m, Pow10(6 - digits))}

RECURSIVE Join(_, _)
Join(sep, parts) ==
    IF parts = <<>> THEN <<>>
    ELSE IF Len(parts) = 1 THEN parts[1]
    ELSE parts[1] \o sep \o Join(sep, Tail(parts))

\* s.split(sep) for a one-character separator
RECURSIVE Split(_, _)
Split(s, sep) ==
    IF \A k \in 1..Len(s) : s[k] # sep THEN <<s>>
    ELSE LET k == CHOOSE k \in 1..Len(s) :
                      s[k] = sep /\ \A j \in 1..(k - 1) : s[j] # sep
         IN  <<SubSeq(s, 1, k - 1)>> \o Split(SubSeq(s, k + 1, Len(s)), sep)

\* mutant of ljust: the cell is not padded
ljustNoPad(s, w) == s

\* str.ljust
ljust(s, w) == IF Len(s) >= w THEN s ELSE s \o Repeat(" ", w - Len(s))

(***************************************************************************)
(* fmt_table                                                               *)
(***************************************************************************)
RECURSIVE MinLen(_)
MinLen(seqs) ==
    IF Len(seqs) = 1 THEN Len(seqs[1])
    ELSE Min2(Len(seqs[1]), MinLen(Tail(seqs)))

RECURSIVE MaxLen(_)
MaxLen(col) ==
    IF Len(col) = 1 THEN Len(col[1])
    ELSE Max2(Len(col[1]), MaxLen(Tail(col)))

\* cols = list(zip(*([headers] + rows))): zip stops at the shortest sequence
Cols(rws, hdrs) ==
    LET all == <<hdrs>> \o rws
    IN  [j \in 1..MinLen(all) |-> [k \in 1..Len(all) |-> all[k][j]]]

Widths(rws, hdrs) ==
    LET cols == Cols(rws, hdrs)
    IN  [j \in 1..Len(cols) |-> MaxLen(cols[j])]

\* line(parts): zip(parts, widths) stops at the shorter of the two
TableLine(parts, widths) ==
    Join(<<" ", "|", " ">>,
         [j \in 1..Min2(Len(parts), Len(widths)) |-> ljust(parts[j], widths[j])])

TableSep(widths) ==
    Join(<<"-", "+", "-">>, [j \in 1..Len(widths) |-> Repeat("-", widths[j])])

fmt_table(rws, hdrs) ==
    LET widths == Widths(rws, hdrs)
        out    == <<TableLine(hdrs, widths), TableSep(widths)>>
                  \o [k \in 1..Len(rws) |-> TableLine(rws[k], widths)]
    IN  Join(<<LF>>, out)

(***************************************************************************)
(* JSON values as Python sees them after json.loads.                       *)
(***************************************************************************)
JNull     == [t |-> "null",  v |-> 0]
JInt(n)   == [t |-> "int",   v |-> n]
JFloat(m) == [t |-> "float", v |-> m]
JStr(s)   == [t |-> "str",   v |-> s]
JList(l)  == [t |-> "list",  v |-> l]
JObj(f)   == [t |-> "obj",   v |-> f]

Micro == 1000000

\* bool(x)
Truthy(x) ==
    CASE x.t = "null"  -> FALSE
      [] x.t = "int"   -> x.v # 0
      [] x.t = "float" -> x.v # 0
      [] x.t = "str"   -> Len(x.v) > 0
      [] x.t = "list"  -> Len(x.v) > 0
      [] x.t = "obj"   -> DOMAIN x.v # {}

HasKey(x, key) == x.t = "obj" /\ key \in DOMAIN x.v

\* dict.get(key) on a dict
DictGet(x, key, default) == IF key \in DOMAIN x.v THEN x.v[key] ELSE default

\* repr of a float with at most six decimals
FloatStr(m) ==
    LET a    == Abs(m)
        frac == ZeroPad(a % Micro, 6)
        keep == CHOOSE n \in 1..6 :
                    /\ \A k \in (n + 1)..6 : frac[k] = "0"
                    /\ (n = 1 \/ frac[n] # "0")
    IN  (IF m < 0 THEN <<"-">> ELSE <<>>)
        \o NatStr(a \div Micro) \o <<".">> \o SubSeq(frac, 1, keep)

\* str(x) of a scalar, as an f-string without a format spec renders it
PyStr(x) ==
    CASE x.t = "null"  -> <<"N", "o", "n", "e">>
      [] x.t = "int"   -> IntStr(x.v)
      [] x.t = "float" -> FloatStr(x.v)
      [] x.t = "str"   -> x.v

(***************************************************************************)
(* Results of a call: a returned value or a raised exception.              *)
(***************************************************************************)
NoExc == [type |-> "none", msg |-> "none"]

Exc(type, msg) == [type |-> type, msg |-> msg]

Ok(val) == [ok |-> TRUE, val |-> val, exc |-> NoExc]

Raise(type, msg) == [ok |-> FALSE, val |-> JNull, exc |-> Exc(type, msg)]

IsDigit(c) == \E k \in 1..10 : DigitChars[k] = c

DigitVal(c) == (CHOOSE k \in 1..10 : DigitChars[k] = c) - 1

RECURSIVE ParseNat(_)
ParseNat(s) ==
    IF Len(s) = 0 THEN 0
    ELSE 10 * ParseNat(SubSeq(s, 1, Len(s) - 1)) + DigitVal(s[Len(s)])

\* the texts int() and float() accept here: an optional sign and digits
IsIntText(s) ==
    LET body == IF Len(s) > 0 /\ s[1] \in {"-", "+"} THEN Tail(s) ELSE s
    IN  Len(body) > 0 /\ \A k \in 1..Len(body) : IsDigit(body[k])

IntTextVal(s) ==
    IF s[1] = "-" THEN 0 - ParseNat(Tail(s))
    ELSE IF s[1] = "+" THEN ParseNat(Tail(s))
    ELSE ParseNat(s)

\* int(x): truncates a float toward zero, parses a string
PyInt(x) ==
    CASE x.t = "int"   -> Ok(x.v)
      [] x.t = "float" -> Ok(IF x.v >= 0 THEN x.v \div Micro
                             ELSE 0 - ((0 - x.v) \div Micro))
      [] x.t = "str"   -> IF IsIntText(x.v) THEN Ok(IntTextVal(x.v))
                          ELSE Raise("ValueError", "invalid literal for int()")
      [] OTHER         -> Raise("TypeError", "int() argument")

\* float(x), the result in units of 10^-6
PyFloat(x) ==
    CASE x.t = "int"   -> Ok(x.v * Micro)
      [] x.t = "float" -> Ok(x.v)
      [] x.t = "str"   -> IF IsIntText(x.v) THEN Ok(IntTextVal(x.v) * Micro)
                          ELSE Raise("ValueError", "could not convert string to float")
      [] OTHER         -> Raise("TypeError", "float() argument")

\* x[key] for a string key
GetItem(x, key) ==
    IF x.t = "obj"
    THEN IF key \in DOMAIN x.v THEN Ok(x.v[key]) ELSE Raise("KeyError", key)
    ELSE Raise("TypeError", "not subscriptable by a string")

\* x[k] for a zero-based index k >= 0
GetIndex(x, k) ==
    CASE x.t = "list" -> IF k < Len(x.v) THEN Ok(x.v[k + 1])
                         ELSE Raise("IndexError", "list index out of range")
      [] x.t = "str"  -> IF k < Len(x.v) THEN Ok(JStr(<<x.v[k + 1]>>))
                         ELSE Raise("IndexError", "string index out of range")
      [] x.t = "obj"  -> Raise("KeyError", "integer key")
      [] OTHER        -> Raise("TypeError", "not subscriptable")

(***************************************************************************)
(* http_get                                                                *)
(***************************************************************************)
GEO_BASE == "https://geocoding-api.open-meteo.com/v1/search"

FORECAST_BASE == "https://api.open-meteo.com/v1/forecast"

\* A response of the network: net = "fail" when no response arrives
\* (connection error, timeout); body.valid says whether it is JSON text.
IsHttpSuccess(status) == status >= 200 /\ status < 300

\* urllib.request.urlopen with the default opener: raises URLError when no
\* response arrives and HTTPError for a final status outside 2xx.
urlopen(resp) ==
    IF resp.net = "fail" THEN Raise("URLError", "urlopen error")
    ELSE IF ~IsHttpSuccess(resp.status) THEN Raise("HTTPError", "HTTP Error")
    ELSE Ok(JNull)

\* mutant of StatusRejected: only an error status is rejected
StatusRejectedLax(status) == status >= 400

StatusRejected(status) == status # 200

\* json.loads(resp.read().decode("utf-8"))
json_loads(body) ==
    IF body.valid THEN Ok(body.val)
    ELSE Raise("JSONDecodeError", "Expecting value")

http_get(resp) ==
    LET opened == urlopen(resp)
    IN  IF ~opened.ok THEN opened
        ELSE IF StatusRejected(resp.status) THEN Raise("RuntimeError", "HTTP status")
        ELSE json_loads(resp.body)

(***************************************************************************)
(* geocode                                                                 *)
(***************************************************************************)
Chars_count  == <<"1">>
Chars_json   == <<"j", "s", "o", "n">>

GeoParams(city, lang, count) ==
    [name |-> city, count |-> IntStr(count), language |-> lang, format |-> Chars_json]

GeoRequest(city, lang) == [url |-> GEO_BASE, params |-> GeoParams(city, lang, 1)]

\* mutant of FirstOf: the last result is returned
LastOf(results) == GetIndex(results, Len(results.v) - 1)

\* results[0], given that results is truthy
FirstOf(results) == GetIndex(results, 0)

\* the part of geocode after http_get returned data
GeoResults(got) ==
    IF got.t # "obj" THEN Raise("AttributeError", "no attribute get")
    ELSE LET found   == DictGet(got, "results", JNull)
             results == IF Truthy(found) THEN found ELSE JList(<<>>)
         IN  IF ~Truthy(results) THEN Raise("ValueError", "place not found")
             ELSE FirstOf(results)

geocode(resp) ==
    LET got == http_get(resp)
    IN  IF ~got.ok THEN got ELSE GeoResults(got.val)

(***************************************************************************)
(* fetch_forecast                                                          *)
(***************************************************************************)
daily_params ==
    "weather_code,temperature_2m_max,temperature_2m_min,precipitation_probability_max"

\* mutant of ForecastParams: the day count is clamped to 1..16
ForecastParamsClamped(lat_text, lon_text, days, tz) ==
    [latitude      |-> lat_text,
     longitude     |-> lon_text,
     timezone      |-> tz,
     forecast_days |-> IntStr(Min2(Max2(days, 1), 16)),
     daily         |-> daily_params]

\* the query of the forecast request; lat_text and lon_text are lat and lon
\* printed by format(x, ".5f")
ForecastParams(lat_text, lon_text, days, tz) ==
    [latitude      |-> lat_text,
     longitude     |-> lon_text,
     timezone      |-> tz,
     forecast_days |-> IntStr(days),
     daily         |-> daily_params]

ForecastRequest(lat_text, lon_text, days, tz) ==
    [url |-> FORECAST_BASE, params |-> ForecastParams(lat_text, lon_text, days, tz)]

\* "daily" in data
ContainsDaily(got) ==
    CASE got.t = "obj"  -> Ok("daily" \in DOMAIN got.v)
      [] got.t = "list" -> Ok(\E k \in 1..Len(got.v) :
                                 got.v[k].t = "str" /\ got.v[k].v = <<"d", "a", "i", "l", "y">>)
      [] got.t = "str"  -> Ok(\E k \in 1..Len(got.v) :
                                 k + 4 <= Len(got.v)
                                 /\ SubSeq(got.v, k, k + 4) = <<"d", "a", "i", "l", "y">>)
      [] OTHER          -> Raise("TypeError", "argument is not iterable")

\* the part of fetch_forecast after http_get returned data
ForecastData(got) ==
    LET has == ContainsDaily(got)
    IN  IF ~has.ok THEN Raise(has.exc.type, has.exc.msg)
        ELSE IF ~has.val THEN Raise("RuntimeError", "forecast data missing")
        ELSE Ok(got)

fetch_forecast(resp) ==
    LET got == http_get(resp)
    IN  IF ~got.ok THEN got ELSE ForecastData(got.val)

(***************************************************************************)
(* The weather-code table and the translation of a code.                   *)
(***************************************************************************)
WEATHER_CODE_MAP_JA ==
    0 :> <<"u5FEB", "u6674">> @@
    1 :> <<"u307B", "u307C", "u5FEB", "u6674">> @@
    2 :> <<"u6674", "u308C", "u6642", "u3005", "u304F", "u3082", "u308A">> @@
    3 :> <<"u304F", "u3082", "u308A">> @@
    45 :> <<"u9727">> @@
    48 :> <<"u7740", "u6C37", "u6027", "u9727">> @@
    51 :> <<"u9727", "u96E8", "(", "u5F31", ")">> @@
    53 :> <<"u9727", "u96E8", "(", "u4E2D", ")">> @@
    55 :> <<"u9727", "u96E8", "(", "u5F37", ")">> @@
    56 :> <<"u7740", "u6C37", "u6027", "u9727", "u96E8", "(", "u5F31", ")">> @@
    57 :> <<"u7740", "u6C37", "u6027", "u9727", "u96E8", "(", "u5F37", ")">> @@
    61 :> <<"u96E8", "(", "u5F31", ")">> @@
    63 :> <<"u96E8", "(", "u4E2D", ")">> @@
    65 :> <<"u96E8", "(", "u5F37", ")">> @@
    66 :> <<"u7740", "u6C37", "u6027", "u96E8", "(", "u5F31", ")">> @@
    67 :> <<"u7740", "u6C37", "u6027", "u96E8", "(", "u5F37", ")">> @@
    71 :> <<"u96EA", "(", "u5F31", ")">> @@
    73 :> <<"u96EA", "(", "u4E2D", ")">> @@
    75 :> <<"u96EA", "(", "u5F37", ")">> @@
    77 :> <<"u96EA", "u3042", "u3089", "u308C">> @@
    80 :> <<"u306B", "u308F", "u304B", "u96E8", "(", "u5F31", ")">> @@
    81 :> <<"u306B", "u308F", "u304B", "u96E8", "(", "u4E2D", ")">> @@
    82 :> <<"u306B", "u308F", "u304B", "u96E8", "(", "u5F37", ")">> @@
    85 :> <<"u306B", "u308F", "u304B", "u96EA", "(", "u5F31", ")">> @@
    86 :> <<"u306B", "u308F", "u304B", "u96EA", "(", "u5F37", ")">> @@
    95 :> <<"u96F7", "u96E8">> @@
    96 :> <<"u96F7", "u96E8", "(", "u5F31", "u3044", "u3072", "u3087", "u3046", ")">> @@
    99 :> <<"u96F7", "u96E8", "(", "u5F37", "u3044", "u3072", "u3087", "u3046", ")">>

\* the f-string of line 136: the two characters for "unknown", then (code)
UnknownCode(code) == <<"u4E0D", "u660E", "(">> \o IntStr(code) \o <<")">>

\* mutant of weather_desc: the fallback text leaves the code out
weather_desc_nocode(cm, code) ==
    IF code \in DOMAIN cm THEN cm[code] ELSE <<"u4E0D", "u660E">>

\* WEATHER_CODE_MAP_JA.get(code, <fallback>)
weather_desc(cm, code) == IF code \in DOMAIN cm THEN cm[code] ELSE UnknownCode(code)

(***************************************************************************)
(* Dates: y, m, d = map(int, date_str.split("-")); dt.date(y, m, d)        *)
(***************************************************************************)
IsLeap(y) == (y % 4 = 0 /\ y % 100 # 0) \/ y % 400 = 0

DaysInMonth(y, m) ==
    IF m = 2 THEN (IF IsLeap(y) THEN 29 ELSE 28)
    ELSE IF m \in {4, 6, 9, 11} THEN 30 ELSE 31

\* the dates dt.date accepts
ValidDate(y, m, d) ==
    /\ y >= 1 /\ y <= 9999
    /\ m >= 1 /\ m <= 12
    /\ d >= 1 /\ d <= DaysInMonth(y, m)

\* day of the week of a valid date, 0 = Sunday
Weekday(y, m, d) ==
    LET t  == <<0, 3, 2, 5, 0, 3, 5, 1, 4, 6, 2, 4>>
        yy == IF m < 3 THEN y - 1 ELSE y
    IN  (yy + (yy \div 4) - (yy \div 100) + (yy \div 400) + t[m] + d) % 7

DayNames ==
    <<<<"S", "u", "n">>, <<"M", "o", "n">>, <<"T", "u", "e">>, <<"W", "e", "d">>, <<"T", "h", "u">>, <<"F", "r", "i">>, <<"S", "a", "t">>>>

\* strftime("%Y-%m-%d (%a)") in the C locale.  The C library decides whether
\* %Y pads a year below 1000 with zeros, so both texts are possible there.
DayLabels(y, m, d) ==
    LET rest == <<"-">> \o ZeroPad(m, 2) \o <<"-">> \o ZeroPad(d, 2)
                \o <<" ", "(">> \o DayNames[Weekday(y, m, d) + 1] \o <<")">>
    IN  {yt \o rest : yt \in {NatStr(y), ZeroPad(y, 4)}}

\* The outcome of lines 141-142 up to dt.date: Ok(<<y, m, d>>) or the error.
ParseDate(date_str) ==
    IF date_str.t # "str" THEN Raise("AttributeError", "no attribute split")
    ELSE LET parts == Split(date_str.v, "-")
             n     == Len(parts)
         IN  IF \E k \in 1..Min2(n, 4) : ~IsIntText(parts[k])
             THEN Raise("ValueError", "invalid literal for int()")
             ELSE IF n < 3 THEN Raise("ValueError", "not enough values to unpack")
             ELSE IF n > 3 THEN Raise("ValueError", "too many values to unpack")
             ELSE LET y == IntTextVal(parts[1])
                      m == IntTextVal(parts[2])
                      d == IntTextVal(parts[3])
                  IN  IF ValidDate(y, m, d) THEN Ok(<<y, m, d>>)
                      ELSE Raise("ValueError", "date value out of range")

(***************************************************************************)
(* One iteration of the loop of main (lines 134-149).                      *)
(***************************************************************************)
\* iter(x): the items a for loop draws from a list or a string
IterItems(x) ==
    CASE x.t = "list" -> Ok(x.v)
      [] x.t = "str"  -> Ok([k \in 1..Len(x.v) |-> JStr(<<x.v[k]>>)])
      [] OTHER        -> Raise("TypeError", "object is not iterable")

\* format(x, ".1f"): the error it raises, if any
Fmt1Check(x) ==
    CASE x.t \in {"int", "float"} -> Ok(x)
      [] x.t = "str"              -> Raise("ValueError", "Unknown format code f")
      [] OTHER                    -> Raise("TypeError", "unsupported format string")

\* format(x, ".1f") and the degree sign and C: the possible texts for a number x
TempTexts(x) ==
    LET m == IF x.t = "int" THEN x.v * Micro ELSE x.v
    IN  {text \o <<"u00B0", "C">> : text \in FixedTexts(m, 1)}

\* f"{pop}%" if pop is not None else "-"
PopText(pop) == IF pop.t # "null" THEN PyStr(pop) \o <<"%">> ELSE <<"-">>

\* the values read in iteration k (zero-based) in the order main reads them
RowSteps(daily, items, k) ==
    LET wcs   == GetItem(daily, "weather_code")
        wc    == IF wcs.ok THEN GetIndex(wcs.val, k) ELSE wcs
        code  == IF wc.ok THEN PyInt(wc.val) ELSE wc
        tmaxs == GetItem(daily, "temperature_2m_max")
        tmax  == IF tmaxs.ok THEN GetIndex(tmaxs.val, k) ELSE tmaxs
        tmins == GetItem(daily, "temperature_2m_min")
        tmin  == IF tmins.ok THEN GetIndex(tmins.val, k) ELSE tmins
        pops  == DictGet(daily, "precipitation_probability_max",
                         JList([n \in 1..Len(items) |-> JNull]))
        pop   == GetIndex(pops, k)
        date  == ParseDate(items[k + 1])
        fmin  == IF tmin.ok THEN Fmt1Check(tmin.val) ELSE tmin
        fmax  == IF tmax.ok THEN Fmt1Check(tmax.val) ELSE tmax
    IN  [code |-> code, tmax |-> tmax, tmin |-> tmin, pop |-> pop,
         date |-> date, fmin |-> fmin, fmax |-> fmax]

\* the exception iteration k raises, NoExc when it builds a row
RowError(daily, items, k) ==
    LET s     == RowSteps(daily, items, k)
        order == <<s.code, s.tmax, s.tmin, s.pop, s.date, s.fmin, s.fmax>>
    IN  IF \A n \in 1..Len(order) : order[n].ok THEN NoExc
        ELSE order[CHOOSE n \in 1..Len(order) :
                       ~order[n].ok /\ \A j \in 1..(n - 1) : order[j].ok].exc

\* mutant of RowCells: the two temperatures change places
RowCellsSwapped(day_label, wdesc, tmin_text, tmax_text, pop_text) ==
    <<day_label, wdesc, tmax_text, tmin_text, pop_text>>

RowCells(day_label, wdesc, tmin_text, tmax_text, pop_text) ==
    <<day_label, wdesc, tmin_text, tmax_text, pop_text>>

\* the rows iteration k can append when it raises nothing
RowChoices(daily, items, k, cm) ==
    LET s   == RowSteps(daily, items, k)
        ymd == s.date.val
    IN  {RowCells(lbl, weather_desc(cm, s.code.val), tn, tx, PopText(s.pop.val)) :
            lbl \in DayLabels(ymd[1], ymd[2], ymd[3]),
            tn \in TempTexts(s.tmin.val), tx \in TempTexts(s.tmax.val)}

HEADERS == <<<<"u65E5", "u4ED8">>, <<"u5929", "u6C17">>, <<"u6700", "u4F4E", "u6C17", "u6E29">>, <<"u6700", "u9AD8", "u6C17", "u6E29">>, <<"u964D", "u6C34", "u78BA", "u7387", "(", "u6700", "u5927", ")">>>>

(***************************************************************************)
(* Lines 125-128 and 152 of main: the location.                            *)
(***************************************************************************)
\* g.get(key), None when the key is absent
LocGet(rec, key) == DictGet(rec, key, JNull)

CityLabel(rec) ==
    IF Truthy(LocGet(rec, "admin1"))
    THEN PyStr(LocGet(rec, "name")) \o <<",", " ">> \o PyStr(LocGet(rec, "admin1"))
         \o <<" ", "(">> \o PyStr(LocGet(rec, "country_code")) \o <<")">>
    ELSE PyStr(LocGet(rec, "name"))
         \o <<" ", "(">> \o PyStr(LocGet(rec, "country_code")) \o <<")">>

\* lat, lon = float(g["latitude"]), float(g["longitude"]) and the label
ReadLoc(rec) ==
    LET la  == GetItem(rec, "latitude")
        laf == IF la.ok THEN PyFloat(la.val) ELSE la
        lo  == GetItem(rec, "longitude")
        lof == IF lo.ok THEN PyFloat(lo.val) ELSE lo
    IN  IF ~laf.ok THEN laf
        ELSE IF ~lof.ok THEN lof
        ELSE Ok([lat |-> laf.val, lon |-> lof.val, city_label |-> CityLabel(rec)])

\* the f-string of line 152: "<place>: {city_label}  [lat={lat:.3f}, lon={lon:.3f}]  / TZ={args.tz}"
LocationLine(label, lat_text, lon_text, tz) ==
    <<"u5834", "u6240", ":", " ">> \o label \o <<" ", " ", "[", "l", "a", "t", "=">> \o lat_text
    \o <<",", " ", "l", "o", "n", "=">> \o lon_text \o <<"]", " ", " ", "/", " ", "T", "Z", "=">> \o tz

\* the f-string of line 156: "<error>: {e}"
ErrorLine(e) == [prefix |-> <<"u30A8", "u30E9", "u30FC", ":", " ">>, msg |-> e.msg]

(***************************************************************************)
(* The inputs: command lines and the responses of the two services.        *)
(***************************************************************************)
Cities == {<<"T", "o", "k", "y", "o">>}

Langs == {<<"j", "a">>}

\* --days is any int: argparse applies type=int and nothing else
DaysValues == {0 - 1, 3, 17}

\* the command lines of the model: each day count with one timezone
TzOfDays(d) == IF d = 17 THEN <<"U", "T", "C">> ELSE <<"A", "s", "i", "a", "/", "T", "o", "k", "y", "o">>

ArgSets ==
    {[city |-> c, days |-> d, lang |-> l, tz |-> TzOfDays(d)] :
        c \in Cities, d \in DaysValues, l \in Langs}

L_Tokyo ==
    JObj("name" :> JStr(<<"T", "o", "k", "y", "o">>) @@ "latitude" :> JFloat(35689500)
         @@ "longitude" :> JFloat(139691710) @@ "country_code" :> JStr(<<"J", "P">>)
         @@ "admin1" :> JStr(<<"T", "o", "k", "y", "o">>))

L_Sydney ==
    JObj("name" :> JStr(<<"S", "y", "d", "n", "e", "y">>) @@ "latitude" :> JFloat(0 - 33868819)
         @@ "longitude" :> JInt(151) @@ "country_code" :> JStr(<<"A", "U">>))

L_NoLat == JObj("name" :> JStr(<<"X">>) @@ "longitude" :> JFloat(1500000))

L_BadLon == JObj("latitude" :> JFloat(1500000) @@ "longitude" :> JNull)

EmptyObj == JObj([key \in {} |-> JNull])

ResultsOf(list) == JObj("results" :> JList(list))

JsonBody(val) == [valid |-> TRUE, val |-> val]

InvalidBody == [valid |-> FALSE, val |-> JNull]

GeoBodies ==
    {InvalidBody} \cup
    {JsonBody(val) : val \in
        {EmptyObj, JObj("results" :> JNull), ResultsOf(<<>>), JList(<<>>),
         ResultsOf(<<L_Tokyo>>), ResultsOf(<<L_Sydney, L_Tokyo>>),
         ResultsOf(<<L_NoLat>>), ResultsOf(<<L_BadLon>>)}}

NetFail == [net |-> "fail", status |-> 0, body |-> InvalidBody]

Response(status, body) == [net |-> "ok", status |-> status, body |-> body]

GeoResponses ==
    {NetFail}
    \cup {Response(st, JsonBody(EmptyObj)) : st \in {404, 500}}
    \cup {Response(204, JsonBody(ResultsOf(<<L_Tokyo>>)))}
    \cup {Response(200, body) : body \in GeoBodies}

DayEntry(time, code, tmax, tmin, pop) ==
    [time |-> time, code |-> code, tmax |-> tmax, tmin |-> tmin, pop |-> pop]

DayEntries ==
    {DayEntry(JStr(<<"2", "0", "2", "4", "-", "0", "1", "-", "1", "5">>), JInt(0), JFloat(12300000), JFloat(4500000), JInt(30)),
     DayEntry(JStr(<<"2", "0", "2", "4", "-", "0", "2", "-", "2", "9">>), JInt(100), JFloat(0 - 1200000), JInt(0 - 5), JNull),
     DayEntry(JStr(<<"2", "0", "2", "4", "-", "1", "-", "5">>), JFloat(3700000), JFloat(25340000), JFloat(18060000),
              JFloat(12500000)),
     DayEntry(JStr(<<"0", "9", "9", "9", "-", "1", "2", "-", "3", "1">>), JStr(<<"-", "1">>), JInt(7), JFloat(0 - 40000), JInt(0)),
     DayEntry(JStr(<<"2", "0", "2", "4", "-", "0", "1", "-", "1", "7">>), JStr(<<"a", "b", "c">>), JFloat(12300000), JFloat(4500000), JInt(30)),
     DayEntry(JStr(<<"2", "0", "2", "4", "-", "0", "1", "-", "1", "8">>), JInt(3), JFloat(12300000), JNull, JInt(30)),
     DayEntry(JStr(<<"2", "0", "2", "4", "-", "0", "2", "-", "3", "0">>), JInt(3), JFloat(12300000), JFloat(4500000), JInt(30)),
     DayEntry(JStr(<<"2", "0", "2", "4", "-", "0", "1">>), JInt(3), JFloat(12300000), JFloat(4500000), JInt(30))}

DropKey(f, key) == [k \in (DOMAIN f) \ {key} |-> f[k]]

DropLast(list) == IF Len(list) = 0 THEN list ELSE SubSeq(list, 1, Len(list) - 1)

FullDaily(es) ==
    "time" :> JList([k \in 1..Len(es) |-> es[k].time])
    @@ "weather_code" :> JList([k \in 1..Len(es) |-> es[k].code])
    @@ "temperature_2m_max" :> JList([k \in 1..Len(es) |-> es[k].tmax])
    @@ "temperature_2m_min" :> JList([k \in 1..Len(es) |-> es[k].tmin])
    @@ "precipitation_probability_max" :> JList([k \in 1..Len(es) |-> es[k].pop])

DailyVariants == {"full", "nopop", "shortcode"}

DailyOf(es, variant) ==
    LET f == FullDaily(es)
    IN  CASE variant = "full"      -> JObj(f)
          [] variant = "nopop"     -> JObj(DropKey(f, "precipitation_probability_max"))
          [] variant = "shortcode" ->
                 JObj([f EXCEPT !["weather_code"] = JList(DropLast(@.v))])

EntrySeqs == UNION {[1..n -> DayEntries] : n \in 0..MaxDays}

Dailies ==
    {DailyOf(es, variant) : es \in EntrySeqs, variant \in DailyVariants}
    \cup {JNull, JObj("time" :> JNull), JObj(DropKey(FullDaily(<<>>), "time"))}

ForecastBodies ==
    {InvalidBody, JsonBody(EmptyObj), JsonBody(JList(<<JStr(<<"d", "a", "i", "l", "y">>)>>))}
    \cup {JsonBody(JObj("daily" :> d)) : d \in Dailies}

ForecastResponses ==
    {NetFail, Response(500, JsonBody(EmptyObj)),
     Response(204, JsonBody(JObj("daily" :> DailyOf(<<>>, "full"))))}
    \cup {Response(200, body) : body \in ForecastBodies}

(***************************************************************************)
(* The state of a run of main.                                             *)
(***************************************************************************)
Running == 0 - 1

NoLoc == [lat |-> 0, lon |-> 0, city_label |-> <<>>]

LogEntry(request, resp) ==
    [request |-> request, resp |-> resp, returned |-> http_get(resp).ok]

\* daily = data["daily"] and the items of daily["time"], once the loop runs
Daily == data.v["daily"]

TimeItems == IterItems(Daily.v["time"]).val

Init ==
    /\ pc = "start"
    /\ args \in ArgSets
    /\ http_log = <<>>
    /\ g = JNull
    /\ loc = NoLoc
    /\ data = JNull
    /\ i = 0
    /\ rows = <<>>
    /\ headers = <<>>
    /\ table = <<>>
    /\ exc = NoExc
    /\ stdout = <<>>
    /\ stderr = <<>>
    /\ exit_status = Running
    /\ codeMap = WEATHER_CODE_MAP_JA

\* mutant of Geocode: a failed geocoding is tried again
GeocodeRetry ==
    /\ pc = "start"
    /\ \E resp \in GeoResponses :
          LET r == geocode(resp)
          IN  /\ http_log' = Append(http_log, LogEntry(GeoRequest(args.city, args.lang), resp))
              /\ g' = IF r.ok THEN r.val ELSE g
              /\ pc' = IF r.ok THEN "geocoded" ELSE "start"
    /\ UNCHANGED <<args, loc, data, i, rows, headers, table, exc, stdout, stderr,
                   exit_status, codeMap>>

\* line 124: g = geocode(args.city, lang=args.lang)
Geocode ==
    /\ pc = "start"
    /\ \E resp \in GeoResponses :
          LET r == geocode(resp)
          IN  /\ http_log' = Append(http_log, LogEntry(GeoRequest(args.city, args.lang), resp))
              /\ g' = IF r.ok THEN r.val ELSE g
              /\ exc' = r.exc
              /\ pc' = IF r.ok THEN "geocoded" ELSE "raised"
    /\ UNCHANGED <<args, loc, data, i, rows, headers, table, stdout, stderr,
                   exit_status, codeMap>>

\* lines 125-128
ReadLocation ==
    /\ pc = "geocoded"
    /\ LET r == ReadLoc(g)
       IN  /\ loc' = IF r.ok THEN r.val ELSE loc
           /\ exc' = r.exc
           /\ pc' = IF r.ok THEN "located" ELSE "raised"
    /\ UNCHANGED <<args, http_log, g, data, i, rows, headers, table, stdout,
                   stderr, exit_status, codeMap>>

\* mutant of FetchForecast: the forecast is fetched before the geocoding
FetchForecastFirst ==
    /\ pc \in {"start", "located"}
    /\ \E resp \in ForecastResponses, lat_text \in FixedTexts(loc.lat, 5),
          lon_text \in FixedTexts(loc.lon, 5) :
          LET r == fetch_forecast(resp)
          IN  /\ http_log' = Append(http_log,
                     LogEntry(ForecastRequest(lat_text, lon_text, args.days, args.tz), resp))
              /\ data' = IF r.ok THEN r.val ELSE data
              /\ exc' = r.exc
              /\ pc' = IF r.ok THEN "fetched" ELSE "raised"
    /\ UNCHANGED <<args, g, loc, i, rows, headers, table, stdout, stderr,
                   exit_status, codeMap>>

\* line 130: data = fetch_forecast(lat, lon, args.days, args.tz)
FetchForecast ==
    /\ pc = "located"
    /\ \E resp \in ForecastResponses, lat_text \in FixedTexts(loc.lat, 5),
          lon_text \in FixedTexts(loc.lon, 5) :
          LET r == fetch_forecast(resp)
          IN  /\ http_log' = Append(http_log,
                     LogEntry(ForecastRequest(lat_text, lon_text, args.days, args.tz), resp))
              /\ data' = IF r.ok THEN r.val ELSE data
              /\ exc' = r.exc
              /\ pc' = IF r.ok THEN "fetched" ELSE "raised"
    /\ UNCHANGED <<args, g, loc, i, rows, headers, table, stdout, stderr,
                   exit_status, codeMap>>

\* mutant of StartLoop: the location line is printed before the rows are built
StartLoopPrints ==
    /\ pc = "fetched"
    /\ LET d     == GetItem(data, "daily")
           t     == IF d.ok THEN GetItem(d.val, "time") ELSE d
           items == IF t.ok THEN IterItems(t.val) ELSE t
       IN  /\ exc' = items.exc
           /\ pc' = IF items.ok THEN "loop" ELSE "raised"
    /\ rows' = <<>>
    /\ i' = 0
    /\ \E lat_text \in FixedTexts(loc.lat, 3), lon_text \in FixedTexts(loc.lon, 3) :
          stdout' = Append(stdout, LocationLine(loc.city_label, lat_text, lon_text, args.tz))
    /\ UNCHANGED <<args, http_log, g, loc, data, headers, table,
                   stderr, exit_status, codeMap>>

\* lines 131-134: daily = data["daily"]; rows = []; the loop starts on
\* daily["time"]
StartLoop ==
    /\ pc = "fetched"
    /\ LET d     == GetItem(data, "daily")
           t     == IF d.ok THEN GetItem(d.val, "time") ELSE d
           items == IF t.ok THEN IterItems(t.val) ELSE t
       IN  /\ exc' = items.exc
           /\ pc' = IF items.ok THEN "loop" ELSE "raised"
    /\ rows' = <<>>
    /\ i' = 0
    /\ UNCHANGED <<args, http_log, g, loc, data, headers, table, stdout,
                   stderr, exit_status, codeMap>>

\* lines 134-149: one iteration of the loop
BuildRow ==
    /\ pc = "loop"
    /\ i < Len(TimeItems)
    /\ LET e == RowError(Daily, TimeItems, i)
       IN  IF e # NoExc
           THEN /\ exc' = e
                /\ pc' = "raised"
                /\ UNCHANGED <<rows, i>>
           ELSE /\ \E row \in RowChoices(Daily, TimeItems, i, codeMap) :
                       rows' = Append(rows, row)
                /\ i' = i + 1
                /\ UNCHANGED <<exc, pc>>
    /\ UNCHANGED <<args, http_log, g, loc, data, headers, table, stdout,
                   stderr, exit_status, codeMap>>

\* lines 151-153, then main returns
PrintForecast ==
    /\ pc = "loop"
    /\ i = Len(TimeItems)
    /\ headers' = HEADERS
    /\ table' = fmt_table(rows, HEADERS)
    /\ \E lat_text \in FixedTexts(loc.lat, 3), lon_text \in FixedTexts(loc.lon, 3) :
          stdout' = stdout \o <<LocationLine(loc.city_label, lat_text, lon_text, args.tz),
                                fmt_table(rows, HEADERS)>>
    /\ pc' = "done"
    /\ exit_status' = 0
    /\ UNCHANGED <<args, http_log, g, loc, data, i, rows, exc, stderr, codeMap>>

\* mutant of HandleError: the process exits without reporting the error
HandleErrorQuiet ==
    /\ pc = "raised"
    /\ exit_status' = 1
    /\ pc' = "exit"
    /\ UNCHANGED <<args, http_log, g, loc, data, i, rows, headers, table, exc,
                   stdout, stderr, codeMap>>

\* lines 155-157: except Exception as e
HandleError ==
    /\ pc = "raised"
    /\ stderr' = Append(stderr, ErrorLine(exc))
    /\ exit_status' = 1
    /\ pc' = "exit"
    /\ UNCHANGED <<args, http_log, g, loc, data, i, rows, headers, table, exc,
                   stdout, codeMap>>

Next ==
    \/ Geocode
    \/ ReadLocation
    \/ FetchForecast
    \/ StartLoop
    \/ BuildRow
    \/ PrintForecast
    \/ HandleError

Spec == Init /\ [][Next]_vars

(***************************************************************************)
(* fmt_table on its own: a caller builds any headers and rows and renders. *)
(***************************************************************************)
HeaderCells == {<<"h">>, <<"x", "y", "z">>}

Cells == {<<>>, <<"x", "y">>, <<"a", LF, "b">>}

HeaderRows == UNION {[1..n -> HeaderCells] : n \in 0..MaxCols}

\* a row with one cell per header, or a row with no cell at all
RowsFor(n) == [1..n -> Cells] \cup {<<>>}

InitTable ==
    /\ pc = "table"
    /\ args = [city |-> <<>>, days |-> 0, lang |-> <<>>, tz |-> <<>>]
    /\ http_log = <<>>
    /\ g = JNull
    /\ loc = NoLoc
    /\ data = JNull
    /\ i = 0
    /\ rows = <<>>
    /\ headers \in HeaderRows
    /\ table = <<>>
    /\ exc = NoExc
    /\ stdout = <<>>
    /\ stderr = <<>>
    /\ exit_status = Running
    /\ codeMap = WEATHER_CODE_MAP_JA

AddRow ==
    /\ pc = "table"
    /\ Len(rows) < MaxRows
    /\ \E row \in RowsFor(Len(headers)) : rows' = Append(rows, row)
    /\ UNCHANGED <<pc, args, http_log, g, loc, data, i, headers, table, exc,
                   stdout, stderr, exit_status, codeMap>>

Render ==
    /\ pc = "table"
    /\ table' = fmt_table(rows, headers)
    /\ pc' = "rendered"
    /\ UNCHANGED <<args, http_log, g, loc, data, i, rows, headers, exc, stdout,
                   stderr, exit_status, codeMap>>

NextTable ==
    \/ AddRow
    \/ Render

SpecTable == InitTable /\ [][NextTable]_vars

(***************************************************************************)
(* Helpers of the properties.                                              *)
(***************************************************************************)
GeoLog == {k \in 1..Len(http_log) : http_log[k].request.url = GEO_BASE}

ForecastLog == {k \in 1..Len(http_log) : http_log[k].request.url = FORECAST_BASE}

\* the text of a decimal number with exactly `digits` decimals
IsFixedText(s, digits) ==
    LET body  == IF Len(s) > 0 /\ s[1] = "-" THEN Tail(s) ELSE s
        parts == Split(body, ".")
    IN  /\ Len(parts) = 2
        /\ Len(parts[1]) > 0
        /\ Len(parts[2]) = digits
        /\ \A n \in 1..2 : \A k \in 1..Len(parts[n]) : IsDigit(parts[n][k])

\* its value in units of 10^-digits
FixedTextVal(s, digits) ==
    LET neg   == s[1] = "-"
        parts == Split(IF neg THEN Tail(s) ELSE s, ".")
        q     == ParseNat(parts[1]) * Pow10(digits) + ParseNat(parts[2])
    IN  IF neg THEN 0 - q ELSE q

\* text is m (in units of 10^-6) printed with `digits` decimals, rounded to nearest
ShowsRounded(text, m, digits) ==
    /\ IsFixedText(text, digits)
    /\ 2 * Abs(FixedTextVal(text, digits) * Pow10(6 - digits) - m) <= Pow10(6 - digits)

MicroOf(x) == IF x.t = "int" THEN x.v * Micro ELSE x.v

PcRank(p) ==
    CASE p = "start"    -> 0
      [] p = "geocoded" -> 1
      [] p = "located"  -> 2
      [] p = "fetched"  -> 3
      [] p = "loop"     -> 4
      [] p = "done"     -> 5
      [] p = "raised"   -> 6
      [] p = "exit"     -> 7

(***************************************************************************)
(* C1: the steps of main occur only in the order geocode, fetch forecast,  *)
(* format, print.  The forecast request is issued only after the geocoding *)
(* request returned a location record; standard output is written only     *)
(* after the forecast request returned a response with daily data and      *)
(* every row was formatted; no step is repeated or taken out of order.     *)
(***************************************************************************)
C1_ForecastAfterGeocode ==
    \A k \in ForecastLog :
        /\ k = 2
        /\ http_log[1].request.url = GEO_BASE
        /\ http_log[1].returned
        /\ g.t = "obj"
        /\ g = http_log[1].resp.body.val.v["results"].v[1]

C1_PrintAfterFormat ==
    stdout # <<>> =>
        /\ Len(http_log) = 2
        /\ http_log[2].request.url = FORECAST_BASE
        /\ http_log[2].returned
        /\ HasKey(http_log[2].resp.body.val, "daily")
        /\ Len(rows) = Len(http_log[2].resp.body.val.v["daily"].v["time"].v)
        /\ i = Len(rows)
        /\ pc = "done"

C1_StepOrder ==
    /\ PcRank(pc') >= PcRank(pc)
    /\ (PcRank(pc') = PcRank(pc) => (pc = "loop" /\ i' = i + 1 /\ Len(rows') = Len(rows) + 1))
    /\ (pc' = "done" => pc = "loop")
    /\ (pc' \in {"geocoded", "located", "fetched", "loop"} /\ pc' # pc
            => PcRank(pc') = PcRank(pc) + 1)
    /\ (Len(http_log') # Len(http_log) => pc \in {"start", "located"})
    /\ (stdout' # stdout => pc = "loop" /\ stdout = <<>>)

C1_PipelineOrder ==
    [](C1_ForecastAfterGeocode /\ C1_PrintAfterFormat) /\ [][C1_StepOrder]_vars

C1_Witness ==
    /\ pc = "done"
    /\ Len(stdout) = 2
    /\ Len(rows) = 2
    /\ Len(http_log) = 2

(***************************************************************************)
(* C2: whenever geocoding, forecast fetching or row formatting raises,     *)
(* main catches the exception, writes exactly one line with the prefix and *)
(* the message to standard error and exits with status 1; no exception     *)
(* escapes main, and a run that raises nothing ends without sys.exit(1).   *)
(***************************************************************************)
C2_RaisedIsCaught ==
    /\ (Len(http_log) = 1 /\ ~geocode(http_log[1].resp).ok
            => pc \in {"raised", "exit"} /\ exc = geocode(http_log[1].resp).exc)
    /\ (Len(http_log) = 2 /\ ~fetch_forecast(http_log[2].resp).ok
            => pc \in {"raised", "exit"} /\ exc = fetch_forecast(http_log[2].resp).exc)
    /\ (exc # NoExc <=> pc \in {"raised", "exit"})
    /\ (pc = "raised" => ENABLED HandleError)
    /\ (pc = "exit" =>
            /\ exit_status = 1
            /\ stderr = <<[prefix |-> <<"u30A8", "u30E9", "u30FC", ":", " ">>, msg |-> exc.msg]>>)
    /\ (pc # "exit" => stderr = <<>> /\ exit_status # 1)
    /\ (pc = "done" => exit_status = 0 /\ exc = NoExc)
    /\ (exit_status = Running <=> pc \notin {"done", "exit"})

C2_HandlerStep ==
    pc = "raised" => pc' = "exit" /\ exit_status' = 1 /\ Len(stderr') = 1 /\ exc' = exc

C3_RaisesOnNonSuccess ==
    \A k \in 1..Len(http_log) :
        LET e == http_log[k]
        IN  /\ (e.resp.net = "ok" /\ e.resp.status # 200 => ~e.returned)
            /\ (e.returned =>
                    /\ e.resp.net = "ok"
                    /\ e.resp.status = 200
                    /\ e.resp.body.valid
                    /\ http_get(e.resp).val = e.resp.body.val)
            /\ (~e.returned => pc \in {"raised", "exit"} /\ k = Len(http_log))

C3_Witness ==
    /\ Len(http_log) = 2
    /\ http_log[1].returned
    /\ http_log[2].resp.status = 204
    /\ ~http_log[2].returned
    /\ exc.type = "RuntimeError"

(***************************************************************************)
(* C4: geocode returns the first element of a non-empty 'results' list,    *)
(* however many records it holds; when 'results' is absent, null or empty  *)
(* it raises ValueError, and main exits with status 1 without issuing a    *)
(* forecast request.                                                       *)
(***************************************************************************)
C4_FirstResult ==
    (Len(http_log) >= 1 /\ http_log[1].returned /\ http_log[1].resp.body.val.t = "obj") =>
        LET body == http_log[1].resp.body.val
            some == /\ "results" \in DOMAIN body.v
                    /\ body.v["results"].t = "list"
                    /\ Len(body.v["results"].v) > 0
            none == \/ "results" \notin DOMAIN body.v
                    \/ body.v["results"].t = "null"
                    \/ body.v["results"] = JList(<<>>)
        IN  /\ some => g = body.v["results"].v[1]
            /\ none =>
                   /\ g = JNull
                   /\ exc.type = "ValueError"
                   /\ pc \in {"raised", "exit"}
                   /\ (pc = "exit" => exit_status = 1)
                   /\ ForecastLog = {}

C4_Witness ==
    /\ pc = "located"
    /\ Len(http_log[1].resp.body.val.v["results"].v) = 2
    /\ g = L_Sydney

(***************************************************************************)
(* C5: fetch_forecast issues exactly one request to the forecast endpoint  *)
(* carrying the latitude and longitude (printed with five decimals), the   *)
(* day count and the timezone, --days and --tz unchanged; it returns the   *)
(* response unchanged when it contains 'daily' and raises RuntimeError     *)
(* when 'daily' is absent.                                                 *)
(***************************************************************************)
C5_ForecastRequest ==
    /\ Cardinality(ForecastLog) <= 1
    /\ (pc \in {"fetched", "loop", "done"} => Cardinality(ForecastLog) = 1)
    /\ \A k \in ForecastLog :
          LET e    == http_log[k]
              body == e.resp.body.val
          IN  /\ ShowsRounded(e.request.params.latitude, loc.lat, 5)
              /\ ShowsRounded(e.request.params.longitude, loc.lon, 5)
              /\ IsIntText(e.request.params.forecast_days)
              /\ IntTextVal(e.request.params.forecast_days) = args.days
              /\ e.request.params.timezone = args.tz
              /\ (e.returned /\ HasKey(body, "daily")
                      => data = body /\ exc.type # "RuntimeError")
              /\ (e.returned /\ body.t = "obj" /\ ~HasKey(body, "daily")
                      => data = JNull /\ exc.type = "RuntimeError"
                         /\ pc \in {"raised", "exit"})

C5_Witness ==
    /\ pc = "fetched"
    /\ args.days = 17
    /\ loc.lat = 0 - 33868819
    /\ http_log[2].request.params.latitude = <<"-", "3", "3", ".", "8", "6", "8", "8", "2">>
    /\ http_log[2].request.params.forecast_days = <<"1", "7">>
    /\ data = http_log[2].resp.body.val

(***************************************************************************)
(* The layout of a rendered table, stated from the cells.                  *)
(***************************************************************************)
Rectangular(rws, hdrs) == \A k \in 1..Len(rws) : Len(rws[k]) = Len(hdrs)

NoLineBreak(cells) == \A j \in 1..Len(cells) : \A n \in 1..Len(cells[j]) : cells[j][n] # LF

\* the greatest character length in column j
ColWidth(rws, hdrs, j) ==
    LET lens == {Len(hdrs[j])} \cup {Len(rws[k][j]) : k \in 1..Len(rws)}
    IN  CHOOSE w \in lens : \A x \in lens : x <= w

\* the number of characters before column j on every line
RECURSIVE ColStart(_, _, _)
ColStart(rws, hdrs, j) ==
    IF j = 1 THEN 0
    ELSE ColStart(rws, hdrs, j - 1) + ColWidth(rws, hdrs, j - 1) + 3

LineWidth(rws, hdrs) ==
    IF Len(hdrs) = 0 THEN 0
    ELSE ColStart(rws, hdrs, Len(hdrs)) + ColWidth(rws, hdrs, Len(hdrs))

\* line holds each cell at the start of its column, padded with `fill` to
\* the column width, with `sep` between the columns
LineHolds(line, cells, rws, hdrs, fill, sep) ==
    /\ Len(line) = LineWidth(rws, hdrs)
    /\ \A j \in 1..Len(hdrs) :
          LET start == ColStart(rws, hdrs, j)
              width == ColWidth(rws, hdrs, j)
          IN  /\ SubSeq(line, start + 1, start + Len(cells[j])) = cells[j]
              /\ \A n \in (start + Len(cells[j]) + 1)..(start + width) : line[n] = fill
              /\ (j < Len(hdrs) => SubSeq(line, start + width + 1, start + width + 3) = sep)

TableLayout(text, rws, hdrs) ==
    LET lines == Split(text, LF)
    IN  /\ Len(lines) = Len(rws) + 2
        /\ \A k \in 1..Len(lines) : Len(lines[k]) = Len(lines[1])
        /\ LineHolds(lines[1], hdrs, rws, hdrs, " ", <<" ", "|", " ">>)
        /\ LineHolds(lines[2], [j \in 1..Len(hdrs) |-> <<>>], rws, hdrs, "-", <<"-", "+", "-">>)
        /\ \A k \in 1..Len(rws) :
              LineHolds(lines[k + 2], rws[k], rws, hdrs, " ", <<" ", "|", " ">>)

(***************************************************************************)
(* C6 as stated: for any headers and any rows with as many cells as        *)
(* headers, fmt_table gives len(rows)+2 lines (header, separator, one line *)
(* per row in input order), each column as wide as its longest header or   *)
(* cell, every line of the same length, the separators aligned.            *)
(***************************************************************************)
C6_AlignedForAnyCells ==
    pc = "rendered" /\ Rectangular(rows, headers) => TableLayout(table, rows, headers)

(***************************************************************************)
(* C6 amended: the same, for headers and rows none of whose cells holds a  *)
(* line break.                                                             *)
(***************************************************************************)
C6_AlignedWithoutLineBreaks ==
    (/\ pc = "rendered"
     /\ Rectangular(rows, headers)
     /\ NoLineBreak(headers)
     /\ \A k \in 1..Len(rows) : NoLineBreak(rows[k]))
        => TableLayout(table, rows, headers)

C6_Witness ==
    /\ pc = "rendered"
    /\ Len(headers) = 2
    /\ Len(rows) = 2
    /\ Rectangular(rows, headers)
    /\ NoLineBreak(headers)
    /\ \A k \in 1..Len(rows) : NoLineBreak(rows[k])
    /\ Len(headers[1]) = 1
    /\ Len(rows[1][1]) = 2
    /\ Len(rows[2][1]) = 0
    /\ Len(headers[2]) = 3
    /\ Len(rows[1][2]) = 0
    /\ Len(Split(table, LF)) = 4

(***************************************************************************)
(* C7: the weather-code translation is total over integer codes and its    *)
(* table is never modified: a code of the table yields its description and *)
(* any other integer yields the fallback text with the code in brackets.   *)
(***************************************************************************)
TableCodes ==
    {0, 1, 2, 3, 45, 48, 51, 53, 55, 56, 57, 61, 63, 65, 66, 67, 71, 73, 75, 77,
     80, 81, 82, 85, 86, 95, 96, 99}

C7_Translation ==
    /\ codeMap = WEATHER_CODE_MAP_JA
    /\ DOMAIN codeMap = TableCodes
    /\ codeMap[0] = <<"u5FEB", "u6674">>
    /\ codeMap[3] = <<"u304F", "u3082", "u308A">>
    /\ (pc \in {"loop", "done", "raised", "exit"} =>
          \A k \in 1..Len(rows) :
              LET code == PyInt(data.v["daily"].v["weather_code"].v[k]).val
              IN  IF code \in TableCodes
                  THEN rows[k][2] = WEATHER_CODE_MAP_JA[code]
                  ELSE rows[k][2] = <<"u4E0D", "u660E", "(">> \o IntStr(code) \o <<")">>)

C7_Witness ==
    /\ pc = "done"
    /\ Len(rows) = 2
    /\ rows[1][2] = <<"u304F", "u3082", "u308A">>
    /\ rows[2][2] = <<"u4E0D", "u660E", "(", "-", "1", ")">>

(***************************************************************************)
(* C8: there is no retry.  A run sends at most one request to the          *)
(* geocoding endpoint and at most one to the forecast endpoint, and after  *)
(* a failed request it sends no further request.                           *)
(***************************************************************************)
C8_AtMostOneEach ==
    /\ Cardinality(GeoLog) <= 1
    /\ Cardinality(ForecastLog) <= 1
    /\ Len(http_log) <= 2

C8_NothingAfterFailure ==
    /\ (Len(http_log) > 0 /\ ~http_log[Len(http_log)].returned => http_log' = http_log)
    /\ (exc # NoExc => http_log' = http_log)
    /\ Len(http_log') <= Len(http_log) + 1

C8_NoRetry == []C8_AtMostOneEach /\ [][C8_NothingAfterFailure]_vars

C8_Witness ==
    /\ pc = "exit"
    /\ Len(http_log) = 2
    /\ http_log[2].resp.net = "fail"
    /\ ~http_log[2].returned

(***************************************************************************)
(* C9: output is all-or-nothing.  A run that exits with status 1 after a   *)
(* geocoding, forecast or row-formatting failure has written nothing to    *)
(* standard output; the location line and the table are written only after *)
(* every row has been built.                                               *)
(***************************************************************************)
C9_AllOrNothing ==
    /\ (pc \in {"raised", "exit"} \/ exit_status = 1 => stdout = <<>>)
    /\ (stdout # <<>> =>
            /\ pc = "done"
            /\ Len(stdout) = 2
            /\ Len(rows) = Len(TimeItems)
            /\ \A k \in 0..(Len(TimeItems) - 1) : RowError(Daily, TimeItems, k) = NoExc)

C9_Witness ==
    /\ pc = "exit"
    /\ exit_status = 1
    /\ Len(rows) = 1
    /\ exc.type = "IndexError"
    /\ stdout = <<>>

(***************************************************************************)
(* C10: a successful run prints one data row per entry of daily.time, in   *)
(* the same order; row i is built from index i of each daily array, the    *)
(* minimum temperature under the third header and the maximum under the    *)
(* fourth; the precipitation cell is '-' when the key is absent or the     *)
(* value is null, and the value followed by '%' otherwise.                 *)
(***************************************************************************)
IsTempCell(cell, x) ==
    /\ Len(cell) > 2
    /\ SubSeq(cell, Len(cell) - 1, Len(cell)) = <<"u00B0", "C">>
    /\ ShowsRounded(SubSeq(cell, 1, Len(cell) - 2), MicroOf(x), 1)

C10_RowPerDay ==
    pc = "done" =>
        LET daily == data.v["daily"].v
            time  == daily["time"].v
        IN  /\ Len(rows) = Len(time)
            /\ headers[3] = <<"u6700", "u4F4E", "u6C17", "u6E29">>
            /\ headers[4] = <<"u6700", "u9AD8", "u6C17", "u6E29">>
            /\ stdout[2] = table
            /\ TableLayout(table, rows, headers)
            /\ \A k \in 1..Len(time) :
                  /\ Len(rows[k]) = 5
                  /\ LET ymd == ParseDate(time[k]).val
                     IN  rows[k][1] \in DayLabels(ymd[1], ymd[2], ymd[3])
                  /\ IsTempCell(rows[k][3], daily["temperature_2m_min"].v[k])
                  /\ IsTempCell(rows[k][4], daily["temperature_2m_max"].v[k])
                  /\ rows[k][5] =
                        IF "precipitation_probability_max" \notin DOMAIN daily
                        THEN <<"-">>
                        ELSE IF daily["precipitation_probability_max"].v[k].t = "null"
                        THEN <<"-">>
                        ELSE PyStr(daily["precipitation_probability_max"].v[k]) \o <<"%">>

C10_Witness ==
    /\ pc = "done"
    /\ Len(rows) = 2
    /\ rows[1][5] = <<"-">>
    /\ rows[2][5] = <<"3", "0", "%">>
    /\ rows[2][3] = <<"4", ".", "5", "u00B0", "C">>
    /\ rows[2][4] = <<"1", "2", ".", "3", "u00B0", "C">>
    /\ "precipitation_probability_max" \in DOMAIN data.v["daily"].v

====
